---- MODULE Spec2Model ----
(***************************************************************************)
(* Model of the two scripts of EbL_Over_PbL/extract_data:                  *)
(*   extract_contribution.py  GitHubUserData, CSVProcessor,                *)
(*                            GitHubContributorSummary.generate_summary    *)
(*   extract_user.py          GitHubContributors.run                       *)
(* A Python dict is a sequence of <<key, value>> pairs in insertion order, *)
(* with no key twice.  The remote API is the environment: what it answers  *)
(* to a request is chosen when the request is made.                        *)
(***************************************************************************)
EXTENDS Integers, Sequences, FiniteSets, TLC

VARIABLES
    \* ---- extract_contribution.py ----
    users,                  \* rows of the input CSV (read_users)
    current_year,           \* datetime.datetime.now().year
    remote,                 \* what the GraphQL API can answer with
    output_csv,             \* rows of the output file
    pc,                     \* position in generate_summary
    ui,                     \* index in users of the identity being processed
    year,                   \* loop variable of get_user_data
    total_contributions,    \* accumulators of get_user_data
    monthly_contributions,
    contribution_types,
    user_data_for_year,     \* <<>> or <<d>>: value returned for the window
    result,                 \* <<>> or <<r>>: record built, not yet written
    posts,                  \* windowed queries answered for this identity
    raised,                 \* indices of the identities whose processing raised
    repo_answer,            \* <<>> or <<r>>: answer to the repository-listing query
    \* ---- extract_user.py ----
    cpc,                    \* position in run
    chain,                  \* remote: number of pages of each paginated listing
    repos,                  \* get_repositories: repos
    repositories,           \* run: repositories
    ri,                     \* run: index of the repository being processed
    url,                    \* locator of the next page (0: None)
    attempts,
    success,
    commits,                \* get_commits: commits
    all_contributors,       \* run: all_contributors
    csvfile,                \* rows written by save_to_csv
    served,                 \* pages answered in the running pagination
    page_requests,          \* requests made for the page at url
    failed,                 \* a request of the running pagination failed
    gave_up,                \* page at which the running pagination was abandoned
    seen_authors            \* author values of all commits handed to run

summary_vars ==
    <<users, current_year, remote, output_csv, pc, ui, year, total_contributions,
      monthly_contributions, contribution_types, user_data_for_year, result,
      posts, raised, repo_answer>>

collector_vars ==
    <<cpc, chain, repos, repositories, ri, url, attempts, success, commits,
      all_contributors, csvfile, served, page_requests, failed, gave_up,
      seen_authors>>

vars == <<summary_vars, collector_vars>>

\* ------------------------------------------------------------------ bounds
MaxWindows == 2     \* yearly windows: current_year < StartYear + MaxWindows
MaxUsers == 2       \* identities in the input file
MaxPages == 2       \* pages of a paginated listing
MaxNodes == 4       \* nodes in the answer to the repository-listing query

\* ------------------------------------------------- program constants
StartYear == 2017
MaxAttempts == 2

\* ------------------------------------------------------------ Python dicts
RECURSIVE SumSeq(_)
SumSeq(s) == IF s = <<>> THEN 0 ELSE Head(s) + SumSeq(Tail(s))

Keys(d) == {d[i][1] : i \in DOMAIN d}

DictGet(d, k, default) ==
    IF k \in Keys(d)
    THEN LET i == CHOOSE j \in DOMAIN d : d[j][1] = k IN d[i][2]
    ELSE default

\* d[k] = v : an existing key keeps its place, a new key goes last
DictSet(d, k, v) ==
    IF k \in Keys(d)
    THEN [i \in DOMAIN d |-> IF d[i][1] = k THEN <<k, v>> ELSE d[i]]
    ELSE Append(d, <<k, v>>)

\* d[k] += n on a defaultdict(int)
DictAddOverwriting(d, k, n) == DictSet(d, k, n)
DictAdd(d, k, n) == DictSet(d, k, DictGet(d, k, 0) + n)

\* sum(d.values())
SumValues(d) == SumSeq([i \in DOMAIN d |-> d[i][2]])

\* for k, n in src.items(): acc[k] += n
RECURSIVE MergeInto(_, _)
MergeInto(acc, src) ==
    IF src = <<>> THEN acc
    ELSE MergeInto(DictAdd(acc, Head(src)[1], Head(src)[2]), Tail(src))

\* --------------------------------------------------- the windowed query
Day(y, m, d, n) == [date |-> [y |-> y, m |-> m, d |-> d], contributionCount |-> n]

\* strptime(date, "%Y-%m-%d").strftime("%Y-%m"): the day of the month is dropped
MonthKey(date) == <<date.y, date.m>>

UserData(total, weeks, c, p, i, r) ==
    [totalContributions |-> total, weeks |-> weeks,
     commitContributionsByRepository |-> c,
     pullRequestContributionsByRepository |-> p,
     issueContributionsByRepository |-> i,
     pullRequestReviewContributionsByRepository |-> r]

\* data.user of the answers the API gives to the windowed query: weeks of
\* days, and per category one totalCount per repository
WindowPayloads ==
    { UserData(0, <<>>, <<>>, <<>>, <<>>, <<>>),
      UserData(2, << <<Day(2017, 1, 1, 1), Day(2017, 1, 2, 1)>> >>,
               <<1, 1>>, <<>>, <<>>, <<>>),
      UserData(1, << <<Day(2017, 1, 31, 0)>>, <<Day(2017, 2, 1, 1)>> >>,
               <<>>, <<>>, <<1>>, <<>>),
      UserData(2, << <<Day(2017, 2, 1, 1)>> >>,
               <<1>>, <<1>>, <<>>, <<1>>),
      UserData(3, << <<Day(2018, 1, 1, 2), Day(2018, 1, 2, 0)>>, <<Day(2017, 2, 1, 1)>> >>,
               <<>>, <<2>>, <<>>, <<0, 1>>),
      UserData(0, << <<Day(2018, 1, 1, 1)>> >>,
               <<>>, <<>>, <<>>, <<>>) }

LeanWindowPayloads ==
    { UserData(2, << <<Day(2017, 1, 1, 1), Day(2017, 1, 2, 1)>> >>,
               <<1, 1>>, <<>>, <<>>, <<>>) }

\* the answer to requests.post: it raised, or a status code and a body
Response(exception, status_code, errors, user) ==
    [exception |-> exception, status_code |-> status_code,
     errors |-> errors, user |-> user]

FailedResponses ==
    { Response(TRUE, 0, FALSE, <<>>),       \* requests.post raises
      Response(FALSE, 502, FALSE, <<>>),    \* non-200 status
      Response(FALSE, 200, TRUE, <<>>),     \* "errors" in data
      Response(FALSE, 200, FALSE, <<>>) }   \* data.user is null

\* a body may carry "errors" beside a user object
WindowResponses ==
    remote.failures
    \cup {Response(FALSE, 200, e, <<p>>) : p \in remote.windows, e \in remote.errors}

_empty_user_data ==
    [contributions |-> 0, repositories |-> 0, primary_language |-> "N/A",
     monthly_contributions |-> <<>>, contribution_types |-> <<>>]

RECURSIVE Flatten(_)
Flatten(weeks) == IF weeks = <<>> THEN <<>> ELSE Head(weeks) \o Flatten(Tail(weeks))

RECURSIVE Rebucket(_, _)
Rebucket(acc, days) ==
    IF days = <<>> THEN acc
    ELSE Rebucket(DictAdd(acc, MonthKey(Head(days).date), Head(days).contributionCount),
                  Tail(days))

_parse_user_data(user_data) ==
    [contributions |-> user_data.totalContributions,
     repositories |-> 0,
     primary_language |-> "N/A",
     monthly_contributions |-> Rebucket(<<>>, Flatten(user_data.weeks)),
     contribution_types |->
        << <<"commits", SumSeq(user_data.commitContributionsByRepository)>>,
           <<"pull_requests", SumSeq(user_data.pullRequestContributionsByRepository)>>,
           <<"issues", SumSeq(user_data.issueContributionsByRepository)>>,
           <<"reviews", SumSeq(user_data.pullRequestReviewContributionsByRepository)>> >>]

\* requests.post raises instead of returning a response
RaisesOnBadStatus(response) == response.exception \/ response.status_code # 200
Raises(response) == response.exception

\* the value _get_user_data_for_year returns for a response
HandleResponse(response) ==
    IF response.status_code = 200
    THEN IF response.errors THEN _empty_user_data
         ELSE IF response.user = <<>> THEN _empty_user_data
         ELSE _parse_user_data(response.user[1])
    ELSE _empty_user_data

\* ------------------------------------------- the repository-listing query
None == "None"

RepoData(totalCount, nodes) == [totalCount |-> totalCount, nodes |-> nodes]

RepoPayloads ==
    { RepoData(0, <<>>),
      RepoData(2, <<"Python", "Go">>),
      RepoData(4, <<None, "Go", "Python", "Go">>) }

LeanRepoPayloads == { RepoData(2, <<"Python", "Go">>) }

RepoResponses ==
    remote.failures
    \cup {Response(FALSE, 200, e, <<p>>) : p \in remote.repos, e \in remote.errors}

RECURSIVE CountLanguages(_, _)
CountLanguages(languages, nodes) ==
    IF nodes = <<>> THEN languages
    ELSE CountLanguages(
            IF Head(nodes) # None /\ Head(nodes) # ""
            THEN DictSet(languages, Head(nodes), DictGet(languages, Head(nodes), 0) + 1)
            ELSE languages,
            Tail(nodes))

\* a maximum that a later key of equal count replaces
RECURSIVE MaxFromLast(_, _)
MaxFromLast(best, rest) ==
    IF rest = <<>> THEN best
    ELSE MaxFromLast(IF Head(rest)[2] >= best[2] THEN Head(rest) ELSE best,
                     Tail(rest))

MaxKeyLast(d) == MaxFromLast(Head(d), Tail(d))[1]

\* max over the keys in insertion order: the running maximum is replaced only
\* by a key of strictly greater count
RECURSIVE MaxFrom(_, _)
MaxFrom(best, rest) ==
    IF rest = <<>> THEN best
    ELSE MaxFrom(IF Head(rest)[2] > best[2] THEN Head(rest) ELSE best,
                 Tail(rest))

\* max(languages, key=languages.get)
MaxKey(d) == MaxFrom(Head(d), Tail(d))[1]

PrimaryLanguage(nodes) ==
    LET languages == CountLanguages(<<>>, nodes)
    IN IF languages # <<>> THEN MaxKey(languages) ELSE "N/A"

_get_additional_user_data(response) ==
    IF response.status_code = 200
    THEN IF response.errors THEN [repositories |-> 0, primary_language |-> "N/A"]
         ELSE IF response.user = <<>> THEN [repositories |-> 0, primary_language |-> "N/A"]
         ELSE [repositories |-> response.user[1].totalCount,
               primary_language |-> PrimaryLanguage(response.user[1].nodes)]
    ELSE [repositories |-> 0, primary_language |-> "N/A"]

\* ------------------------------------------------------------ the CSV file
fieldnames ==
    <<"user", "contributions", "repositories", "primary_language",
      "monthly_contributions", "contribution_types">>

HeaderLine == [header |-> TRUE, cells |-> fieldnames]

\* str(dict): the text of the mapping, its items in insertion order
Str(d) == [str |-> d]

\* lines 305-307: the two mappings become text, then one line of six cells
RowLine(r) ==
    [header |-> FALSE,
     cells |-> <<r.user, r.contributions, r.repositories, r.primary_language,
                 Str(r.monthly_contributions), Str(r.contribution_types)>>]

\* --------------------------------------------- generate_summary: the state
Identities == {"alice", "bob"}

SeqsUpTo(S, n) == UNION {[1..k -> S] : k \in 0..n}

SummaryStart(userLists, api) ==
    /\ users \in userLists
    /\ current_year \in StartYear..(StartYear + MaxWindows - 1)
    /\ remote = api
    /\ output_csv = <<>>
    /\ pc = "construct"
    /\ ui = 0
    /\ year = 0
    /\ total_contributions = 0
    /\ monthly_contributions = <<>>
    /\ contribution_types = <<>>
    /\ user_data_for_year = <<>>
    /\ result = <<>>
    /\ posts = <<>>
    /\ raised = {}
    /\ repo_answer = <<>>

FullApi ==
    [windows |-> WindowPayloads, repos |-> RepoPayloads,
     failures |-> FailedResponses, errors |-> BOOLEAN]

LeanApi ==
    [windows |-> LeanWindowPayloads, repos |-> LeanRepoPayloads,
     failures |-> FailedResponses, errors |-> {FALSE}]

\* primaryLanguage of a node: null, an object with an empty name, or a name
LanguageNodes == {None, "", "Python", "Go"}

\* every node list of up to MaxNodes nodes
LanguageRepoPayloads ==
    {RepoData(Len(nodes), nodes) : nodes \in SeqsUpTo(LanguageNodes, MaxNodes)}

LanguageApi ==
    [windows |-> LeanWindowPayloads, repos |-> LanguageRepoPayloads,
     failures |-> FailedResponses, errors |-> BOOLEAN]

\* ------------------------------------------- generate_summary: the actions
\* CSVProcessor.__init__: the output file is opened with mode 'w' and given
\* its header
_initialize_csv ==
    /\ pc = "construct"
    /\ output_csv' = <<HeaderLine>>
    /\ pc' = "read_users"
    /\ UNCHANGED <<users, current_year, remote, ui, year, total_contributions,
                   monthly_contributions, contribution_types, user_data_for_year,
                   result, posts, raised>>
    /\ UNCHANGED repo_answer
    /\ UNCHANGED collector_vars

read_users ==
    /\ pc = "read_users"
    /\ ui' = 1
    /\ pc' = "for_user"
    /\ UNCHANGED <<users, current_year, remote, output_csv, year,
                   total_contributions, monthly_contributions, contribution_types,
                   user_data_for_year, result, posts, raised>>
    /\ UNCHANGED repo_answer
    /\ UNCHANGED collector_vars

\* for user in users: ... get_user_data(user), up to the loop over the years
get_user_data ==
    /\ pc = "for_user"
    /\ ui <= Len(users)
    /\ total_contributions' = 0
    /\ monthly_contributions' = <<>>
    /\ contribution_types' = <<>>
    /\ year' = StartYear
    /\ posts' = <<>>
    /\ repo_answer' = <<>>
    /\ pc' = "for_year"
    /\ UNCHANGED <<users, current_year, remote, output_csv, ui,
                   user_data_for_year, result, raised>>
    /\ UNCHANGED collector_vars

\* the users are exhausted: generate_summary returns
generate_summary_return ==
    /\ pc = "for_user"
    /\ ui > Len(users)
    /\ pc' = "done"
    /\ UNCHANGED <<users, current_year, remote, output_csv, ui, year,
                   total_contributions, monthly_contributions, contribution_types,
                   user_data_for_year, result, posts, raised>>
    /\ UNCHANGED repo_answer
    /\ UNCHANGED collector_vars

\* the windowed query, re-issued after a failed answer (not what the code does)
_get_user_data_for_year_retrying ==
    /\ pc = "for_year"
    /\ year <= current_year
    /\ \E response \in WindowResponses :
        /\ posts' = Append(posts, [year |-> year, response |-> response])
        /\ IF Raises(response) \/ response.status_code # 200
           THEN IF Len(SelectSeq(posts, LAMBDA p : p.year = year)) < MaxAttempts
                THEN pc' = "for_year" /\ UNCHANGED user_data_for_year
                ELSE /\ user_data_for_year' = <<_empty_user_data>>
                     /\ pc' = "fold"
           ELSE /\ user_data_for_year' = <<HandleResponse(response)>>
                /\ pc' = "fold"
    /\ UNCHANGED <<users, current_year, remote, output_csv, ui, year,
                   total_contributions, monthly_contributions, contribution_types,
                   result, raised>>
    /\ UNCHANGED repo_answer
    /\ UNCHANGED collector_vars

\* line 40: one call of _get_user_data_for_year, one requests.post
_get_user_data_for_year ==
    /\ pc = "for_year"
    /\ year <= current_year
    /\ \E response \in WindowResponses :
        /\ posts' = Append(posts, [year |-> year, response |-> response])
        /\ IF Raises(response)
           THEN pc' = "except" /\ UNCHANGED user_data_for_year
           ELSE /\ user_data_for_year' = <<HandleResponse(response)>>
                /\ pc' = "fold"
    /\ UNCHANGED <<users, current_year, remote, output_csv, ui, year,
                   total_contributions, monthly_contributions, contribution_types,
                   result, raised>>
    /\ UNCHANGED repo_answer
    /\ UNCHANGED collector_vars

\* line 42: total_contributions += user_data_for_year["contributions"]
AddTotal(total, d) == total + d.contributions

\* lines 42-46: the window is folded into the running totals
fold_year ==
    /\ pc = "fold"
    /\ LET d == user_data_for_year[1] IN
        /\ total_contributions' = AddTotal(total_contributions, d)
        /\ monthly_contributions' = MergeInto(monthly_contributions, d.monthly_contributions)
        /\ contribution_types' = MergeInto(contribution_types, d.contribution_types)
    /\ user_data_for_year' = <<>>
    /\ year' = year + 1
    /\ pc' = "for_year"
    /\ UNCHANGED <<users, current_year, remote, output_csv, ui, result, posts, raised>>
    /\ UNCHANGED repo_answer
    /\ UNCHANGED collector_vars

\* lines 48-56 and 334-341: the second query, the summary, the record
get_additional_and_build ==
    /\ pc = "for_year"
    /\ year > current_year
    /\ \E response \in RepoResponses :
        /\ repo_answer' = <<response>>
        /\ IF Raises(response)
           THEN pc' = "except" /\ UNCHANGED result
           ELSE LET additional_user_data == _get_additional_user_data(response) IN
                /\ result' = << [user |-> users[ui],
                                 contributions |-> total_contributions,
                                 repositories |-> additional_user_data.repositories,
                                 primary_language |-> additional_user_data.primary_language,
                                 monthly_contributions |-> monthly_contributions,
                                 contribution_types |-> contribution_types] >>
                /\ pc' = "write"
    /\ UNCHANGED <<users, current_year, remote, output_csv, ui, year,
                   total_contributions, monthly_contributions, contribution_types,
                   user_data_for_year, posts, raised>>
    /\ UNCHANGED collector_vars

\* the record is kept in memory instead of being appended (not what the code does)
write_user_data_buffered ==
    /\ pc = "write"
    /\ ui' = ui + 1
    /\ pc' = "for_user"
    /\ UNCHANGED <<users, current_year, remote, output_csv, year, total_contributions,
                   monthly_contributions, contribution_types, user_data_for_year,
                   result, posts, raised>>
    /\ UNCHANGED repo_answer
    /\ UNCHANGED collector_vars

\* line 342: the record is appended to the file, opened with mode 'a'
write_user_data ==
    /\ pc = "write"
    /\ output_csv' = Append(output_csv, RowLine(result[1]))
    /\ result' = <<>>
    /\ ui' = ui + 1
    /\ pc' = "for_user"
    /\ UNCHANGED <<users, current_year, remote, year, total_contributions,
                   monthly_contributions, contribution_types, user_data_for_year,
                   posts, raised>>
    /\ UNCHANGED repo_answer
    /\ UNCHANGED collector_vars

\* the exception ends the run (not what the code does)
except_handler_aborting ==
    /\ pc = "except"
    /\ raised' = raised \cup {ui}
    /\ pc' = "done"
    /\ UNCHANGED <<users, current_year, remote, output_csv, ui, year,
                   total_contributions, monthly_contributions, contribution_types,
                   user_data_for_year, result, posts>>
    /\ UNCHANGED repo_answer
    /\ UNCHANGED collector_vars

\* lines 343-344: except Exception: print, then the next user
except_handler ==
    /\ pc = "except"
    /\ raised' = raised \cup {ui}
    /\ ui' = ui + 1
    /\ pc' = "for_user"
    /\ UNCHANGED <<users, current_year, remote, output_csv, year,
                   total_contributions, monthly_contributions, contribution_types,
                   user_data_for_year, result, posts>>
    /\ UNCHANGED repo_answer
    /\ UNCHANGED collector_vars

NextSummary ==
    \/ _initialize_csv
    \/ read_users
    \/ get_user_data
    \/ generate_summary_return
    \/ _get_user_data_for_year
    \/ fold_year
    \/ get_additional_and_build
    \/ write_user_data
    \/ except_handler

SummaryIdle ==
    /\ users = <<>>
    /\ current_year = StartYear
    /\ remote = LeanApi
    /\ output_csv = <<>>
    /\ pc = "idle"
    /\ ui = 0
    /\ year = 0
    /\ total_contributions = 0
    /\ monthly_contributions = <<>>
    /\ contribution_types = <<>>
    /\ user_data_for_year = <<>>
    /\ result = <<>>
    /\ posts = <<>>
    /\ raised = {}
    /\ repo_answer = <<>>

\* ------------------------------------------------ extract_user.py: remote
Repo(name) == [name |-> name]

\* a commit has an author object, or none: <<>> is None, <<a>> is the object a
Commit(author) == [author |-> author]
Login(l) == <<[login |-> l]>>

\* the pages the organisation's repository listing can answer with
RepoNames == {"r1", "r2"}
RepoPageChoices == { <<Repo("r1")>>, <<Repo("r2")>>, <<Repo("r2"), Repo("r1")>> }

\* the pages a repository's commit listing can answer with
CommitPageChoices ==
    { <<Commit(Login("alice")), Commit(<<>>)>>,
      <<Commit(Login("bob")), Commit(Login("alice"))>>,
      <<Commit(<<>>)>> }

\* the body of page i of a listing of n pages: a listing with no page answers
\* the first request with an empty list
PageBodies(i, n, choices) == IF i <= n THEN choices ELSE {<<>>}

\* response.links.get('next', {}).get('url') with the link never found
NextUrlNever(i, n) == 0
\* response.links.get('next', {}).get('url') of page i of n: 0 is None
NextUrl(i, n) == IF i < n THEN i + 1 ELSE 0

RECURSIVE Concat(_)
Concat(pages) == IF pages = <<>> THEN <<>> ELSE Head(pages) \o Concat(Tail(pages))

\* ------------------------------------------------- extract_user.py: state
CollectorStart ==
    /\ cpc = "start"
    /\ chain \in [repos : 0..MaxPages, commits : [RepoNames -> 0..MaxPages]]
    /\ repos = <<>>
    /\ repositories = <<>>
    /\ ri = 0
    /\ url = 0
    /\ attempts = 0
    /\ success = FALSE
    /\ commits = <<>>
    /\ all_contributors = {}
    /\ csvfile = <<>>
    /\ served = <<>>
    /\ page_requests = 0
    /\ failed = FALSE
    /\ gave_up = 0
    /\ seen_authors = {}

CollectorIdle ==
    /\ cpc = "idle"
    /\ chain = [repos |-> 0, commits |-> [r \in RepoNames |-> 0]]
    /\ repos = <<>>
    /\ repositories = <<>>
    /\ ri = 0
    /\ url = 0
    /\ attempts = 0
    /\ success = FALSE
    /\ commits = <<>>
    /\ all_contributors = {}
    /\ csvfile = <<>>
    /\ served = <<>>
    /\ page_requests = 0
    /\ failed = FALSE
    /\ gave_up = 0
    /\ seen_authors = {}

\* ----------------------------------------------- extract_user.py: actions
\* run, lines 115-116, and get_repositories, lines 34-35
run ==
    /\ cpc = "start"
    /\ all_contributors' = {}
    /\ repos' = <<>>
    /\ url' = 1
    /\ served' = <<>>
    /\ cpc' = "list"
    /\ UNCHANGED <<chain, repositories, ri, attempts, success, commits, csvfile,
                   page_requests, failed, gave_up, seen_authors>>
    /\ UNCHANGED summary_vars

\* lines 36-40 with a good answer: the page is added, the next link followed
get_repositories_page ==
    /\ cpc = "list"
    /\ url # 0
    /\ \E body \in PageBodies(url, chain.repos, RepoPageChoices) :
        /\ repos' = repos \o body
        /\ served' = Append(served, body)
    /\ url' = NextUrl(url, chain.repos)
    /\ UNCHANGED <<cpc, chain, repositories, ri, attempts, success, commits,
                   all_contributors, csvfile, page_requests, failed, gave_up,
                   seen_authors>>
    /\ UNCHANGED summary_vars

\* lines 37-38: requests.get or raise_for_status raises; nothing catches it,
\* in get_repositories or in run
get_repositories_raises ==
    /\ cpc = "list"
    /\ url # 0
    /\ cpc' = "crashed"
    /\ UNCHANGED <<chain, repos, repositories, ri, url, attempts, success, commits,
                   all_contributors, csvfile, served, page_requests, failed,
                   gave_up, seen_authors>>
    /\ UNCHANGED summary_vars

\* line 41 and line 117
get_repositories_return ==
    /\ cpc = "list"
    /\ url = 0
    /\ repositories' = [i \in DOMAIN repos |-> repos[i].name]
    /\ ri' = 1
    /\ cpc' = "for_repo"
    /\ UNCHANGED <<chain, repos, url, attempts, success, commits, all_contributors,
                   csvfile, served, page_requests, failed, gave_up, seen_authors>>
    /\ UNCHANGED summary_vars

\* lines 117-119 and 53-59: the next repository, get_commits begins
get_commits ==
    /\ cpc = "for_repo"
    /\ ri <= Len(repositories)
    /\ commits' = <<>>
    /\ url' = 1
    /\ served' = <<>>
    /\ page_requests' = 0
    /\ failed' = FALSE
    /\ gave_up' = 0
    /\ cpc' = "while_url"
    /\ UNCHANGED <<chain, repos, repositories, ri, attempts, success,
                   all_contributors, csvfile, seen_authors>>
    /\ UNCHANGED summary_vars

\* lines 60-62: while url: attempts = 0; success = False
while_url ==
    /\ cpc = "while_url"
    /\ url # 0
    /\ attempts' = 0
    /\ success' = FALSE
    /\ page_requests' = 0
    /\ cpc' = "try"
    /\ UNCHANGED <<chain, repos, repositories, ri, url, commits, all_contributors,
                   csvfile, served, failed, gave_up, seen_authors>>
    /\ UNCHANGED summary_vars

\* while attempts < 3 and not success
InnerLoopGuardOneMore(a, s) == a < MaxAttempts + 1 /\ ~s
\* line 63: while attempts < 2 and not success
InnerLoopGuard(a, s) == a < MaxAttempts /\ ~s

\* lines 64-69: the request succeeds
request_ok ==
    /\ cpc = "try"
    /\ InnerLoopGuard(attempts, success)
    /\ url # 0
    /\ page_requests' = page_requests + 1
    /\ \E body \in PageBodies(url, chain.commits[repositories[ri]], CommitPageChoices) :
        /\ commits' = commits \o body
        /\ served' = Append(served, body)
    /\ url' = NextUrl(url, chain.commits[repositories[ri]])
    /\ success' = TRUE
    /\ UNCHANGED <<cpc, chain, repos, repositories, ri, attempts, all_contributors,
                   csvfile, failed, gave_up, seen_authors>>
    /\ UNCHANGED summary_vars

\* the exception is not caught (not what the code does)
request_fails_raising ==
    /\ cpc = "try"
    /\ InnerLoopGuard(attempts, success)
    /\ page_requests' = page_requests + 1
    /\ failed' = TRUE
    /\ cpc' = "crashed"
    /\ UNCHANGED <<chain, repos, repositories, ri, url, attempts, success, commits,
                   all_contributors, csvfile, served, gave_up, seen_authors>>
    /\ UNCHANGED summary_vars

\* giving up drops what was collected (not what the code does)
request_fails_discarding ==
    /\ cpc = "try"
    /\ InnerLoopGuard(attempts, success)
    /\ page_requests' = page_requests + 1
    /\ failed' = TRUE
    /\ attempts' = attempts + 1
    /\ IF attempts + 1 = MaxAttempts
       THEN url' = 0 /\ gave_up' = url /\ commits' = <<>>
       ELSE UNCHANGED <<url, gave_up, commits>>
    /\ UNCHANGED <<cpc, chain, repos, repositories, ri, success,
                   all_contributors, csvfile, served, seen_authors>>
    /\ UNCHANGED summary_vars

\* lines 64-66 and 70-77: requests.get or raise_for_status raises a
\* RequestException; after the second one the page is given up
request_fails ==
    /\ cpc = "try"
    /\ InnerLoopGuard(attempts, success)
    /\ page_requests' = page_requests + 1
    /\ failed' = TRUE
    /\ attempts' = attempts + 1
    /\ IF attempts + 1 = MaxAttempts
       THEN url' = 0 /\ gave_up' = url
       ELSE UNCHANGED <<url, gave_up>>
    /\ UNCHANGED <<cpc, chain, repos, repositories, ri, success, commits,
                   all_contributors, csvfile, served, seen_authors>>
    /\ UNCHANGED summary_vars

\* line 63: the inner loop ends
inner_loop_exit ==
    /\ cpc = "try"
    /\ ~InnerLoopGuard(attempts, success)
    /\ cpc' = "while_url"
    /\ UNCHANGED <<chain, repos, repositories, ri, url, attempts, success, commits,
                   all_contributors, csvfile, served, page_requests, failed,
                   gave_up, seen_authors>>
    /\ UNCHANGED summary_vars

\* line 78: return commits
get_commits_return ==
    /\ cpc = "while_url"
    /\ url = 0
    /\ cpc' = "contributors"
    /\ UNCHANGED <<chain, repos, repositories, ri, url, attempts, success, commits,
                   all_contributors, csvfile, served, page_requests, failed,
                   gave_up, seen_authors>>
    /\ UNCHANGED summary_vars

\* lines 91-95: the logins of the commits that have an author
get_contributors(cs) ==
    {cs[i].author[1].login : i \in {j \in DOMAIN cs : cs[j].author # <<>>}}

\* all_contributors = contributors
UpdateOverwriting(all, new) == new
\* line 121: all_contributors.update(contributors)
Update(all, new) == all \cup new

\* lines 120-121
add_contributors ==
    /\ cpc = "contributors"
    /\ all_contributors' = Update(all_contributors, get_contributors(commits))
    /\ seen_authors' = seen_authors \cup {commits[i].author : i \in DOMAIN commits}
    /\ ri' = ri + 1
    /\ cpc' = "for_repo"
    /\ UNCHANGED <<chain, repos, repositories, url, attempts, success, commits,
                   csvfile, served, page_requests, failed, gave_up>>
    /\ UNCHANGED summary_vars

\* the orders in which a set can be iterated
Orderings(S) ==
    {s \in [1..Cardinality(S) -> S] : \A i, j \in DOMAIN s : i # j => s[i] # s[j]}

\* lines 104-108, reached at line 122 when the repositories are exhausted
save_to_csv ==
    /\ cpc = "for_repo"
    /\ ri > Len(repositories)
    /\ \E order \in Orderings(all_contributors) :
        csvfile' = <<[header |-> TRUE, cells |-> <<"User">>]>>
                   \o [i \in DOMAIN order |-> [header |-> FALSE, cells |-> <<order[i]>>]]
    /\ cpc' = "done"
    /\ UNCHANGED <<chain, repos, repositories, ri, url, attempts, success, commits,
                   all_contributors, served, page_requests, failed, gave_up,
                   seen_authors>>
    /\ UNCHANGED summary_vars

NextCollector ==
    \/ run
    \/ get_repositories_page
    \/ get_repositories_raises
    \/ get_repositories_return
    \/ get_commits
    \/ while_url
    \/ request_ok
    \/ request_fails
    \/ inner_loop_exit
    \/ get_commits_return
    \/ add_contributors
    \/ save_to_csv

\* ---------------------------------------------------------- specifications
\* get_user_data for one identity, over every answer of the API
InitAggregate ==
    /\ SummaryStart({<<u>> : u \in Identities}, FullApi)
    /\ CollectorIdle

\* generate_summary over input files of up to MaxUsers identities
InitSummary ==
    /\ SummaryStart(SeqsUpTo(Identities, MaxUsers), LeanApi)
    /\ CollectorIdle

\* get_user_data for one identity in the year StartYear, over every answer to
\* the second query
InitLanguage ==
    /\ SummaryStart({<<u>> : u \in Identities}, LanguageApi)
    /\ current_year = StartYear
    /\ CollectorIdle

InitCollector ==
    /\ CollectorStart
    /\ SummaryIdle

SpecAggregate == InitAggregate /\ [][NextSummary]_vars
SpecSummary == InitSummary /\ [][NextSummary]_vars
SpecCollector == InitCollector /\ [][NextCollector]_vars
SpecLanguage == InitLanguage /\ [][NextSummary]_vars

\* =================================================================== claims
\* ------------------------------------------ what the API reported (posts)
Last(s) == s[Len(s)]

\* the answer carries a user object: status 200, no errors, user not null
Answered(p) ==
    /\ ~p.response.exception
    /\ p.response.status_code = 200
    /\ ~p.response.errors
    /\ p.response.user # <<>>

AnsweredData == [i \in DOMAIN SelectSeq(posts, Answered) |->
                    SelectSeq(posts, Answered)[i].response.user[1]]

DayCounts(u) == [i \in DOMAIN Flatten(u.weeks) |-> Flatten(u.weeks)[i].contributionCount]

CategoryCounts(u) ==
    u.commitContributionsByRepository \o u.pullRequestContributionsByRepository
    \o u.issueContributionsByRepository \o u.pullRequestReviewContributionsByRepository

ReportedTotal == SumSeq([i \in DOMAIN AnsweredData |-> AnsweredData[i].totalContributions])
ReportedDays == SumSeq([i \in DOMAIN AnsweredData |-> SumSeq(DayCounts(AnsweredData[i]))])
ReportedByCategory ==
    SumSeq([i \in DOMAIN AnsweredData |-> SumSeq(CategoryCounts(AnsweredData[i]))])

\* the summary as a mapping, from the answers alone: a window that gave no
\* user object adds nothing
AllDays == Flatten([i \in DOMAIN AnsweredData |-> Flatten(AnsweredData[i].weeks)])

ExpectedMonthly ==
    [k \in {MonthKey(AllDays[i].date) : i \in DOMAIN AllDays} |->
        SumSeq([i \in DOMAIN AllDays |->
                   IF MonthKey(AllDays[i].date) = k
                   THEN AllDays[i].contributionCount ELSE 0])]

ExpectedTypes ==
    IF AnsweredData = <<>> THEN <<>>
    ELSE [c \in {"commits", "pull_requests", "issues", "reviews"} |->
            SumSeq([i \in DOMAIN AnsweredData |->
                CASE c = "commits" -> SumSeq(AnsweredData[i].commitContributionsByRepository)
                  [] c = "pull_requests" ->
                        SumSeq(AnsweredData[i].pullRequestContributionsByRepository)
                  [] c = "issues" -> SumSeq(AnsweredData[i].issueContributionsByRepository)
                  [] c = "reviews" ->
                        SumSeq(AnsweredData[i].pullRequestReviewContributionsByRepository)])]

\* a dict read as a mapping (dict equality ignores the order of the keys)
ToMap(d) == IF d = <<>> THEN <<>> ELSE [k \in Keys(d) |-> DictGet(d, k, 0)]
NoKeyTwice(d) == Cardinality(Keys(d)) = Len(d)

MatchesAnswers(total, monthly, types) ==
    /\ total = ReportedTotal
    /\ NoKeyTwice(monthly) /\ ToMap(monthly) = ExpectedMonthly
    /\ NoKeyTwice(types) /\ ToMap(types) = ExpectedTypes

\* a window of this identity failed without an exception / with one
SomeWindowDegraded ==
    \E i \in DOMAIN posts : ~Answered(posts[i]) /\ ~posts[i].response.exception
SomeWindowRaised == \E i \in DOMAIN posts : posts[i].response.exception

\* the users of the data rows of the output file, in file order
DataUsers == [i \in 1..(Len(output_csv) - 1) |-> output_csv[i + 1].cells[1]]

\* the identities among the first n that did not raise, in input order
RECURSIVE NotRaised(_)
NotRaised(n) ==
    IF n = 0 THEN <<>>
    ELSE NotRaised(n - 1) \o (IF n \in raised THEN <<>> ELSE <<users[n]>>)

\* ------------------------------------------------------------------- C1
\* C1 as stated: the summary get_user_data returns has total_contributions
\* equal to the sum of its monthly map and to the sum of its by_category map,
\* whatever the windows answered.
C1_AsStated ==
    pc = "write" =>
        /\ result[1].contributions = SumValues(result[1].monthly_contributions)
        /\ result[1].contributions = SumValues(result[1].contribution_types)

\* C1 amended: total_contributions is the sum of the totalContributions the
\* answered windows reported, the monthly map sums to the sum of their day
\* counts, and the by_category map sums to the sum of their per-repository
\* totalCounts; the three agree when the answers' own three sums agree.
C1_SumsFollowAnswers ==
    pc = "write" =>
        /\ result[1].contributions = ReportedTotal
        /\ SumValues(result[1].monthly_contributions) = ReportedDays
        /\ SumValues(result[1].contribution_types) = ReportedByCategory
        /\ (ReportedTotal = ReportedDays /\ ReportedDays = ReportedByCategory) =>
              /\ result[1].contributions = SumValues(result[1].monthly_contributions)
              /\ result[1].contributions = SumValues(result[1].contribution_types)

C1_Witness ==
    /\ pc = "write"
    /\ Len(AnsweredData) >= 2
    /\ ReportedTotal = ReportedDays /\ ReportedDays = ReportedByCategory
    /\ ReportedTotal > 2

\* ------------------------------------------------------------------- C2
\* C2 as stated: whichever way a window's fetch failed (an exception of the
\* transport included), the identity gets its row, with the summary of the
\* answered windows.
C2_AsStated ==
    (/\ pc = "for_user" /\ ui > 1
     /\ (SomeWindowDegraded \/ SomeWindowRaised)
     /\ ~((ui - 1) \in raised /\ ~SomeWindowRaised)) =>
        /\ (ui - 1) \notin raised
        /\ Len(output_csv) > 1
        /\ Last(output_csv).cells[1] = users[ui - 1]
        /\ MatchesAnswers(Last(output_csv).cells[2], Last(output_csv).cells[5].str,
                          Last(output_csv).cells[6].str)

\* C2 amended: a window that fails with user not found, a remote-reported
\* error or a non-200 status counts as an all-zero window: get_user_data
\* returns the summary of the other windows and the identity gets its row.
\* A transport exception in a window is not caught by get_user_data: the
\* identity's processing ends in the except clause and it gets no row.
C2_DegradedWindowIsZero ==
    /\ pc = "write" =>
          /\ result[1].user = users[ui]
          /\ MatchesAnswers(result[1].contributions, result[1].monthly_contributions,
                            result[1].contribution_types)
    /\ (pc = "for_user" /\ ui > 1 /\ (ui - 1) \notin raised) =>
          /\ Len(output_csv) > 1
          /\ Last(output_csv).cells[1] = users[ui - 1]
          /\ MatchesAnswers(Last(output_csv).cells[2], Last(output_csv).cells[5].str,
                            Last(output_csv).cells[6].str)
    /\ pc = "except" => (SomeWindowRaised \/ year > current_year)
    /\ SomeWindowRaised =>
          /\ Last(posts).response.exception
          /\ pc \in {"except", "for_user", "done"}
          /\ result = <<>>
          /\ pc # "except" => ((ui - 1) \in raised /\ DataUsers = NotRaised(ui - 1))

C2_Witness ==
    /\ pc = "for_user" /\ ui > 1 /\ (ui - 1) \notin raised
    /\ SomeWindowDegraded
    /\ Len(AnsweredData) >= 1
    /\ Last(output_csv).cells[2] > 0

\* ------------------------------------------------------------------ C10
\* a transient failure: the transport raised, or the status is not 200
Transient(p) == p.response.exception \/ p.response.status_code # 200

TimesIssued(y) == Len(SelectSeq(posts, LAMBDA p : p.year = y))

\* C10 as stated: after a transient failure of a window's query the same
\* query is issued again before the window degrades.
C10_AsStated ==
    (posts # <<>> /\ Transient(Last(posts)) /\ pc \in {"fold", "except"}) =>
        TimesIssued(Last(posts).year) > 1

\* C10 amended: the windowed query of a year is issued once and never again.
\* A non-200 status, like a remote-reported error or an unknown identity,
\* degrades the window to the zero-valued result at once; a transport
\* exception is not caught by the window fetch and ends the identity's
\* aggregation.
C10_IssuedOnce ==
    /\ \A i \in DOMAIN posts : TimesIssued(posts[i].year) = 1
    /\ pc = "fold" =>
          /\ ~Last(posts).response.exception
          /\ ~Answered(Last(posts)) => user_data_for_year = <<_empty_user_data>>
    /\ (posts # <<>> /\ Last(posts).response.exception) => pc \notin {"fold", "for_year", "write"}

C10_Witness ==
    /\ pc = "fold"
    /\ Len(posts) >= 2
    /\ Last(posts).response.status_code # 200
    /\ user_data_for_year = <<_empty_user_data>>

\* ------------------------------------------------------------------- C4
\* C4: the header is written once, before any data row; when a remote fetch
\* for an identity starts, the rows of all earlier identities that produced a
\* record are in the file, in input order; a record waits to be written only
\* between its construction and its append.
C4_RowBeforeNextFetch ==
    /\ pc = "construct" => output_csv = <<>>
    /\ pc # "construct" =>
          /\ output_csv # <<>>
          /\ output_csv[1].header
          /\ \A i \in 2..Len(output_csv) : ~output_csv[i].header
    /\ pc \in {"for_year", "fold", "write", "except"} => DataUsers = NotRaised(ui - 1)
    /\ result # <<>> => pc = "write"

C4_Witness ==
    /\ pc = "for_year" /\ ui = 2 /\ posts = <<>>
    /\ Len(output_csv) = 2
    /\ output_csv[2].cells[1] = users[1]

\* ------------------------------------------------------------------- C5
\* C5: an exception while an identity is aggregated leaves no row for it,
\* and the later identities are still processed: when generate_summary
\* returns, the file is the header and one complete row for each identity
\* that did not raise, in input order.
C5_RaisedIdentityOmitted ==
    /\ pc = "except" => result = <<>> /\ DataUsers = NotRaised(ui - 1)
    /\ pc = "done" =>
          /\ ui = Len(users) + 1
          /\ raised \subseteq DOMAIN users
          /\ output_csv[1] = HeaderLine
          /\ DataUsers = NotRaised(Len(users))
          /\ Len(output_csv) = 1 + Len(users) - Cardinality(raised)
          /\ \A i \in 2..Len(output_csv) :
                ~output_csv[i].header /\ Len(output_csv[i].cells) = Len(fieldnames)

C5_Witness ==
    /\ pc = "done"
    /\ Len(users) = 2
    /\ raised = {1}
    /\ Len(output_csv) = 2
    /\ output_csv[2].cells[1] = users[2]

\* ------------------------------------------------------------------- C3
\* C3 as stated: a page is given up after its first request and 2 retries,
\* three requests in all.
C3_AsStated == gave_up # 0 => page_requests = 1 + MaxAttempts

\* C3 amended: a commit page is requested at most twice, the first request
\* and one retry: a page whose two requests both fail is given up after the
\* second, and a page whose first or second request succeeds is not given up.
C3_TwoRequestsPerPage ==
    /\ page_requests <= MaxAttempts
    /\ gave_up # 0 => (page_requests = MaxAttempts /\ attempts = MaxAttempts /\ ~success)
    /\ success => gave_up = 0
    /\ (cpc = "try" /\ ~success /\ attempts < MaxAttempts) => gave_up = 0

C3_Witness ==
    /\ gave_up = 2
    /\ page_requests = 2
    /\ Len(served) = 1
    /\ cpc = "try"

\* ------------------------------------------------------------------- C6
Max(a, b) == IF a >= b THEN a ELSE b

\* the number of commit pages of the repository get_commits is reading
CommitPages == chain.commits[repositories[ri]]

\* C6 as stated: with every request succeeding, a listing of N pages takes
\* exactly N requests and yields the N pages' items in order, for N >= 0.
C6_AsStated ==
    /\ (cpc = "list" /\ url = 0) =>
          (Len(served) = chain.repos /\ repos = Concat(served))
    /\ (cpc = "contributors" /\ ~failed) =>
          (Len(served) = CommitPages /\ commits = Concat(served))

\* C6 amended: with every request succeeding, a listing of N >= 1 pages takes
\* exactly N requests, yields the N pages' items in page order and stops at
\* the page with no next locator; the first request is always made, so a
\* listing with no page takes one request, which yields the empty sequence.
C6_PagesFollowed ==
    /\ cpc = "list" =>
          /\ Len(served) <= Max(chain.repos, 1)
          /\ url = 0 =>
                /\ Len(served) = Max(chain.repos, 1)
                /\ repos = Concat(served)
                /\ chain.repos = 0 => repos = <<>>
    /\ (cpc \in {"while_url", "try", "contributors"} /\ ~failed) =>
          /\ Len(served) <= Max(CommitPages, 1)
          /\ commits = Concat(served)
          /\ cpc = "contributors" =>
                /\ Len(served) = Max(CommitPages, 1)
                /\ CommitPages = 0 => commits = <<>>

C6_Witness ==
    /\ cpc = "contributors" /\ ~failed
    /\ CommitPages = 2
    /\ Len(served) = 2
    /\ Len(commits) = 4
    /\ Len(repositories) = 2

\* ------------------------------------------------------------------- C7
\* the logins among the author values seen
SeenLogins == {a[1].login : a \in seen_authors \ {<<>>}}

\* C7: the contributor collection is the set of the logins of the authors of
\* the commits collected so far, a commit with no author adding nothing, and
\* save_to_csv writes each of them on exactly one row.
C7_ContributorsAreUnion ==
    /\ all_contributors = SeenLogins
    /\ cpc = "done" =>
          /\ csvfile[1].header
          /\ Len(csvfile) = 1 + Cardinality(all_contributors)
          /\ {csvfile[i].cells[1] : i \in 2..Len(csvfile)} = all_contributors
          /\ \A i, j \in 2..Len(csvfile) :
                csvfile[i].cells[1] = csvfile[j].cells[1] => i = j

C7_Witness ==
    /\ cpc = "done"
    /\ Len(repositories) = 2
    /\ <<>> \in seen_authors
    /\ all_contributors = {"alice", "bob"}
    /\ Len(csvfile) = 3

\* ------------------------------------------------------------------- C8
\* the logins of the commits in cs
LoginsOf(cs) == {l \in {"alice", "bob"} : \E i \in DOMAIN cs : cs[i].author = Login(l)}

\* C8: once page k of a repository is given up, no further page of it is
\* requested, get_commits returns the commits of pages 1..k-1 and nothing
\* else, and run adds their authors and goes on to the next repository.
C8_AbandonedPagesKeepEarlier ==
    gave_up # 0 =>
        /\ url = 0
        /\ Len(served) = gave_up - 1
        /\ commits = Concat(served)
        /\ cpc \in {"try", "while_url", "contributors", "for_repo", "done"}
        /\ cpc = "try" => (~ENABLED request_ok /\ ~ENABLED request_fails)
        /\ cpc \in {"for_repo", "done"} => LoginsOf(commits) \subseteq all_contributors
        /\ cpc = "for_repo" => ENABLED (get_commits \/ save_to_csv)

C8_Witness ==
    /\ gave_up = 2
    /\ cpc = "for_repo"
    /\ commits # <<>>
    /\ LoginsOf(commits) # {}
    /\ ri <= Len(repositories)

Detected(nodes) == {nodes[i] : i \in DOMAIN nodes} \ {None, ""}

Occurrences(nodes, l) == Cardinality({i \in DOMAIN nodes : nodes[i] = l})

FirstOccurrence(nodes, l) ==
    CHOOSE i \in DOMAIN nodes : nodes[i] = l /\ \A j \in 1..(i - 1) : nodes[j] # l

\* the second query was answered with a node list
Listed == /\ repo_answer # <<>>
          /\ repo_answer[1].status_code = 200
          /\ ~repo_answer[1].errors
          /\ repo_answer[1].user # <<>>

ListedNodes == IF Listed THEN repo_answer[1].user[1].nodes ELSE <<>>

\* C11: when the summary is built, its primary language is named by at least
\* as many of the listed nodes as any other language, and every other language
\* named by as many nodes occurs first at a later node; when the query was
\* answered without a node list (non-200, "errors", no user) or no listed node
\* names a language, the primary language is "N/A".
C11_StableArgmax ==
    (pc = "write" /\ repo_answer # <<>>) =>
        LET nodes == ListedNodes
            L == result[1].primary_language
        IN IF Detected(nodes) # {}
           THEN /\ L \in Detected(nodes)
                /\ \A l \in Detected(nodes) \ {L} :
                      \/ Occurrences(nodes, l) < Occurrences(nodes, L)
                      \/ /\ Occurrences(nodes, l) = Occurrences(nodes, L)
                         /\ FirstOccurrence(nodes, L) < FirstOccurrence(nodes, l)
           ELSE L = "N/A"

\* two languages are named twice each; the one reported occurs first, although
\* the other is the first to be named twice
C11_Witness ==
    /\ pc = "write"
    /\ Listed
    /\ LET nodes == ListedNodes
           L == result[1].primary_language
       IN /\ Len(nodes) = 4
          /\ nodes[1] = L /\ nodes[4] = L
          /\ nodes[2] = nodes[3] /\ nodes[2] \in Detected(nodes) \ {L}

====
